---- MODULE Spec2Model ----
(***************************************************************************)
(* A model of the WSGI entry point src/backend/wsgi.py: the module-level   *)
(* start-up code (run as the main program or imported by a WSGI server),   *)
(* the signal handler, perform_graceful_shutdown, the uncaught-exception   *)
(* hook, validate_port_number and log_memory_usage; and of the Flask       *)
(* application of src/backend/app.py: its view functions, error handlers   *)
(* and after_request functions.                                            *)
(*                                                                         *)
(* Strings that the code parses (PORT, HOST) are sequences of one-character*)
(* strings, so that int() and whitespace are computed, not assumed.        *)
(***************************************************************************)
EXTENDS Integers, Sequences, FiniteSets, TLC

VARIABLES
    mode,             \* "main": __name__ == "__main__"; "import": imported by a WSGI server
    env,              \* os.environ: FLASK_ENV, HOST, PORT
    hasUSR,           \* hasattr(signal, 'SIGUSR1') / hasattr(signal, 'SIGUSR2')
    pc,               \* position of the module-level code
    reg_i,            \* next signal.signal call of setup_signal_handlers
    stack,            \* frames running above the module-level code (handlers, excepthook)
    excepthook,       \* sys.excepthook is exception_handler
    handlers,         \* signals whose handler is signal_handler
    flask_app,        \* global flask_app
    signal_received,  \* global signal_received
    shutdown_event,   \* shutdown_event.is_set()
    exit_code,        \* process exit status, NoExit while the process runs
    delivered,        \* signals whose handler has been invoked, in order
    shutdowns,        \* signal_name of every perform_graceful_shutdown call, in order
    pgs_active,       \* perform_graceful_shutdown calls begun and not yet returned
    samples,          \* context of every log_memory_usage call, in order
    warnings,         \* logger.warning calls of setup_signal_handlers
    oserrors,         \* signals whose signal.signal call raised OSError
    create_app_calls, \* calls of create_app
    run_host,         \* host given to application.run, NoHost before the call
    inflight,         \* requests accepted and not yet answered
    port_out,         \* result of the validate_port_number call under test
    psutil,           \* what the psutil calls of log_memory_usage do in this process
    app_config,       \* app.config of the Flask application under test
    history,          \* requests the application has answered, with their status
    response          \* the response to the last request

\* the state of the Flask application of app.py
httpVars == <<app_config, history, response>>

vars == <<mode, env, hasUSR, pc, reg_i, stack, excepthook, handlers, flask_app,
          signal_received, shutdown_event, exit_code, delivered, shutdowns,
          pgs_active, samples, warnings, oserrors, create_app_calls, run_host,
          inflight, port_out, psutil, httpVars>>

(***************************************************************************)
(* Bounds of the model.                                                    *)
(***************************************************************************)
\* signals delivered in one run
MaxSignals == 2
\* requests in flight at once
MaxRequests == 1
\* requests answered by the Flask application under test
MaxHistory == 2
\* length of the PORT strings given to validate_port_number
MaxPortLen == 5

(***************************************************************************)
(* Strings.                                                                *)
(***************************************************************************)
Unset == <<"<unset>">>
NoHost == <<"<none>">>
NoExit == -1
NotCalled == [ok |-> FALSE, val |-> -1, called |-> FALSE, logs |-> <<>>]
\* no Flask application is under test, and no request has been answered
NoConfig == [ENV |-> "<none>", DEBUG |-> FALSE, TESTING |-> FALSE]
NoResponse == [status |-> 0]

Str8000 == <<"8", "0", "0", "0">>
StrDefaultHost == <<"0", ".", "0", ".", "0", ".", "0">>
StrLocalhost == <<"l", "o", "c", "a", "l", "h", "o", "s", "t">>

DigitChars == {"0", "1", "2", "3", "4", "5", "6", "7", "8", "9"}

DigitVal(c) ==
    CASE c = "0" -> 0 [] c = "1" -> 1 [] c = "2" -> 2 [] c = "3" -> 3
      [] c = "4" -> 4 [] c = "5" -> 5 [] c = "6" -> 6 [] c = "7" -> 7
      [] c = "8" -> 8 [] c = "9" -> 9

IsSpace(c) == c \in {" ", "\t", "\n"}

RECURSIVE LStrip(_)
LStrip(s) == IF s # <<>> /\ IsSpace(Head(s)) THEN LStrip(Tail(s)) ELSE s

RECURSIVE RStrip(_)
RStrip(s) ==
    IF s # <<>> /\ IsSpace(s[Len(s)]) THEN RStrip(SubSeq(s, 1, Len(s) - 1)) ELSE s

\* str.strip()
Strip(s) == RStrip(LStrip(s))

\* os.getenv(name, default)
os_getenv(name, default) == IF env[name] = Unset THEN default ELSE env[name]

(***************************************************************************)
(* int(port): surrounding whitespace is dropped, one sign is allowed, and  *)
(* the digits may be grouped by single underscores.                        *)
(***************************************************************************)
IntBodyOk(b) ==
    /\ b # <<>>
    /\ b[1] \in DigitChars
    /\ b[Len(b)] \in DigitChars
    /\ \A i \in 1..Len(b) : b[i] \in DigitChars \cup {"_"}
    /\ \A i \in 1..(Len(b) - 1) : ~(b[i] = "_" /\ b[i + 1] = "_")

RECURSIVE IntBodyVal(_, _)
IntBodyVal(b, acc) ==
    IF b = <<>> THEN acc
    ELSE IF Head(b) = "_" THEN IntBodyVal(Tail(b), acc)
    ELSE IntBodyVal(Tail(b), 10 * acc + DigitVal(Head(b)))

int(s) ==
    LET t == Strip(s)
        signed == t # <<>> /\ t[1] \in {"+", "-"}
        b == IF signed THEN Tail(t) ELSE t
    IN  IF IntBodyOk(b)
        THEN [ok |-> TRUE,
              val |-> IF signed /\ t[1] = "-" THEN 0 - IntBodyVal(b, 0)
                      ELSE IntBodyVal(b, 0)]
        ELSE [ok |-> FALSE, val |-> -1]

(***************************************************************************)
(* validate_port_number: the int(port) and the range check of the try      *)
(* block; every ValueError becomes ValueError("Invalid port               *)
(* configuration").  ok = FALSE stands for that raise.  logs are the      *)
(* levels of the logger calls it makes, in order.                          *)
(***************************************************************************)
\* lines 328-330: the three logger.error calls of the except clause
PortErrorLogs == <<"error", "error", "error">>

\* lines 321-323: the two logger.warning calls for a port below 1024
PortWarningLogs(port_number) ==
    IF port_number < 1024 THEN <<"warning", "warning">> ELSE <<>>

validate_port_number_no_upper(port) ==
    LET n == int(port)
    IN  IF ~n.ok
        THEN [ok |-> FALSE, val |-> -1, called |-> TRUE, logs |-> PortErrorLogs]
        ELSE IF n.val < 1
             THEN [ok |-> FALSE, val |-> -1, called |-> TRUE, logs |-> PortErrorLogs]
        ELSE [ok |-> TRUE, val |-> n.val, called |-> TRUE,
              logs |-> PortWarningLogs(n.val)]

validate_port_number(port) ==
    LET n == int(port)
    IN  IF ~n.ok
        THEN [ok |-> FALSE, val |-> -1, called |-> TRUE, logs |-> PortErrorLogs]
        ELSE IF n.val < 1 \/ n.val > 65535
             THEN [ok |-> FALSE, val |-> -1, called |-> TRUE, logs |-> PortErrorLogs]
        ELSE [ok |-> TRUE, val |-> n.val, called |-> TRUE,
              logs |-> PortWarningLogs(n.val)]

(***************************************************************************)
(* The process.                                                            *)
(***************************************************************************)
Signals == {"SIGTERM", "SIGINT", "SIGUSR1", "SIGUSR2"}

\* the signal.signal calls of setup_signal_handlers, in the order of the code
RegOrder == <<"SIGTERM", "SIGINT", "SIGUSR1", "SIGUSR2">>

EnvNames == {"FLASK_ENV", "HOST", "PORT"}

StrDevelopment == <<"development">>
StrTesting == <<"testing">>

\* the environments the process is started in; an unset FLASK_ENV is read as
\* 'production' (line 104)
FlaskEnvs == {Unset, StrDevelopment, StrTesting}
Hosts == {Unset, <<" ">>}
Ports == {Unset, <<"9", "9", "9", "9", "9">>, <<"a", "b", "c">>}

Alive == pc \notin {"exited", "import_failed", "host_error"}

Frame(kind, name, at) == [kind |-> kind, name |-> name, at |-> at]
Top == stack[Len(stack)]
Pop(stk) == SubSeq(stk, 1, Len(stk) - 1)
SetTop(at) == [stack EXCEPT ![Len(stack)].at = at]

\* what psutil.Process(), memory_info() and memory_percent() do (lines 345-347):
\* they return figures within the 75MB target, figures above it, or raise
PsutilOutcomes == {"ok", "high", "fails"}

\* log_memory_usage(context) with the except clause (lines 370-373) leaving the
\* failure unlogged
log_memory_usage_silent(context, name) ==
    Append(samples, [context |-> context, name |-> name,
                     measured |-> psutil # "fails", warned |-> psutil = "high"])

\* log_memory_usage(context): the figures are logged (lines 354-358), with a
\* warning above 75MB (lines 362-364); when psutil raises, the except clause
\* logs a warning (lines 370-373).  The call returns in every case.
log_memory_usage(context, name) ==
    Append(samples, [context |-> context, name |-> name,
                     measured |-> psutil # "fails", warned |-> psutil # "ok"])

(***************************************************************************)
(* An exception raised by the frame on top of stk.  Frames that are not    *)
(* inside a try block are left; a frame inside perform_graceful_shutdown   *)
(* catches it (wsgi.py 293-296) and that call returns.                     *)
(***************************************************************************)
RECURSIVE Unwind(_, _)
Unwind(stk, ended) ==
    IF stk = <<>> THEN [stack |-> <<>>, caught |-> "no", ended |-> ended]
    ELSE LET f == stk[Len(stk)]
         IN  IF f.at = "pgs_end"
             THEN IF f.kind = "signal"
                  THEN [stack |-> Pop(stk), caught |-> "pgs", ended |-> ended + 1]
                  ELSE [stack |-> <<>>, caught |-> "hook_done", ended |-> ended + 1]
             ELSE IF f.kind = "except"
                  THEN [stack |-> <<>>, caught |-> "hook_error", ended |-> ended]
                  ELSE Unwind(Pop(stk), ended)

(***************************************************************************)
(* Initial state: the interpreter is about to run the module-level code    *)
(* after line 76.                                                          *)
(***************************************************************************)
InitGlobals ==
    /\ reg_i = 1
    /\ stack = <<>>
    /\ excepthook = FALSE
    /\ handlers = {}
    /\ flask_app = "None"
    /\ signal_received = FALSE
    /\ shutdown_event = FALSE
    /\ exit_code = NoExit
    /\ delivered = <<>>
    /\ shutdowns = <<>>
    /\ pgs_active = 0
    /\ samples = <<>>
    /\ warnings = 0
    /\ oserrors = {}
    /\ create_app_calls = 0
    /\ run_host = NoHost
    /\ inflight = 0
    /\ port_out = NotCalled
    /\ app_config = NoConfig
    /\ history = <<>>
    /\ response = NoResponse

\* the first statement of the else branch (imported by a WSGI server)
ImportEntry_create_first == "c_validate"

ImportEntry == "setup"

\* the first statement of the __main__ branch
MainEntry == "m_hook"

Init ==
    /\ mode \in {"main", "import"}
    /\ \E f \in FlaskEnvs, h \in Hosts, p \in Ports :
          env = [n \in EnvNames |->
                    IF n = "FLASK_ENV" THEN f ELSE IF n = "HOST" THEN h ELSE p]
    /\ hasUSR \in BOOLEAN
    /\ pc = IF mode = "main" THEN MainEntry ELSE ImportEntry
    /\ psutil = "ok"
    /\ InitGlobals

(***************************************************************************)
(* An exception that reaches the module-level code at position at.         *)
(***************************************************************************)
\* the exception is not caught by the module: sys.excepthook, or the importer
Uncaught ==
    IF excepthook
    THEN [pc |-> "excepthook", exit |-> NoExit,
          stack |-> <<Frame("except", "UNCAUGHT_EXCEPTION", "x_sample")>>]
    ELSE [pc |-> "import_failed", exit |-> NoExit, stack |-> <<>>]

\* an exception raised by a signal handler while the module-level code is at `at`
RaisedInto(at) ==
    IF at = "serving" THEN [pc |-> "exited", exit |-> 1, stack |-> <<>>]
    ELSE IF at = "imported" THEN [pc |-> "host_error", exit |-> NoExit, stack |-> <<>>]
    ELSE Uncaught

(***************************************************************************)
(* handle_uncaught_exceptions (wsgi.py 432-474)                            *)
(***************************************************************************)
handle_uncaught_exceptions ==
    /\ pc = "m_hook" /\ stack = <<>>
    /\ excepthook' = TRUE
    /\ pc' = "setup"
    /\ UNCHANGED <<mode, env, hasUSR, reg_i, stack, handlers, flask_app,
                   signal_received, shutdown_event, exit_code, delivered, shutdowns,
                   pgs_active, samples, warnings, oserrors, create_app_calls,
                   run_host, inflight, port_out, psutil, httpVars>>

(***************************************************************************)
(* setup_signal_handlers (wsgi.py 236-255): one step per signal.signal     *)
(* call inside the single try block.                                       *)
(***************************************************************************)
\* the position after setup_signal_handlers has returned
AfterSetup == "c_validate"

\* signal.signal(sig, signal_handler) returns
RegisterOk ==
    /\ pc = "setup" /\ stack = <<>> /\ reg_i <= Len(RegOrder)
    /\ LET sig == RegOrder[reg_i]
       IN  /\ handlers' = IF sig \in {"SIGUSR1", "SIGUSR2"} /\ ~hasUSR
                          THEN handlers ELSE handlers \cup {sig}
    /\ reg_i' = reg_i + 1
    /\ UNCHANGED <<mode, env, hasUSR, pc, stack, excepthook, flask_app,
                   signal_received, shutdown_event, exit_code, delivered, shutdowns,
                   pgs_active, samples, warnings, oserrors, create_app_calls,
                   run_host, inflight, port_out, psutil, httpVars>>

\* signal.signal(sig, signal_handler) raises OSError: the except clause logs
\* two warnings and setup_signal_handlers returns
RegisterOSError ==
    /\ pc = "setup" /\ stack = <<>> /\ reg_i <= Len(RegOrder)
    /\ RegOrder[reg_i] \in {"SIGUSR1", "SIGUSR2"} => hasUSR
    /\ oserrors' = oserrors \cup {RegOrder[reg_i]}
    /\ warnings' = warnings + 2
    /\ reg_i' = Len(RegOrder) + 1
    /\ pc' = AfterSetup
    /\ UNCHANGED <<mode, env, hasUSR, stack, excepthook, handlers, flask_app,
                   signal_received, shutdown_event, exit_code, delivered, shutdowns,
                   pgs_active, samples, create_app_calls, run_host, inflight,
                   port_out, psutil, httpVars>>

\* the try block ends: the three logger.info calls, and the function returns
SetupDone ==
    /\ pc = "setup" /\ stack = <<>> /\ reg_i = Len(RegOrder) + 1
    /\ pc' = AfterSetup
    /\ UNCHANGED <<mode, env, hasUSR, reg_i, stack, excepthook, handlers, flask_app,
                   signal_received, shutdown_event, exit_code, delivered, shutdowns,
                   pgs_active, samples, warnings, oserrors, create_app_calls,
                   run_host, inflight, port_out, psutil, httpVars>>

(***************************************************************************)
(* create_wsgi_application (wsgi.py 95-144)                                *)
(***************************************************************************)
\* create_wsgi_application with the result of the validation ignored
CreateValidate_unchecked ==
    /\ pc = "c_validate" /\ stack = <<>>
    /\ pc' = "c_create_app"
    /\ UNCHANGED <<mode, env, hasUSR, reg_i, stack, excepthook, handlers, flask_app,
                   signal_received, shutdown_event, exit_code, delivered, shutdowns,
                   pgs_active, samples, warnings, oserrors, create_app_calls,
                   run_host, inflight, port_out, psutil, httpVars>>

\* lines 104-106: the environment is read and PORT validated; a ValueError is
\* caught at line 129 and re-raised as RuntimeError, which nothing catches
CreateValidate ==
    /\ pc = "c_validate" /\ stack = <<>>
    /\ LET port == validate_port_number(os_getenv("PORT", Str8000))
           u == Uncaught
       IN  IF port.ok
           THEN /\ pc' = "c_create_app"
                /\ UNCHANGED stack
           ELSE /\ pc' = u.pc
                /\ stack' = u.stack
    /\ UNCHANGED <<mode, env, hasUSR, reg_i, excepthook, handlers, flask_app,
                   signal_received, shutdown_event, exit_code, delivered, shutdowns,
                   pgs_active, samples, warnings, oserrors, create_app_calls,
                   run_host, inflight, port_out, psutil, httpVars>>

\* lines 110-122: create_app returns the application, which is configured
CreateApp ==
    /\ pc = "c_create_app" /\ stack = <<>>
    /\ create_app_calls' = create_app_calls + 1
    /\ flask_app' = "app"
    /\ pc' = "c_sample"
    /\ UNCHANGED <<mode, env, hasUSR, reg_i, stack, excepthook, handlers,
                   signal_received, shutdown_event, exit_code, delivered, shutdowns,
                   pgs_active, samples, warnings, oserrors, run_host, inflight,
                   port_out, psutil, httpVars>>

\* line 110: create_app raises (app.py 141); re-raised as RuntimeError
CreateAppRaises ==
    /\ pc = "c_create_app" /\ stack = <<>>
    /\ create_app_calls' = create_app_calls + 1
    /\ pc' = Uncaught.pc
    /\ stack' = Uncaught.stack
    /\ UNCHANGED <<mode, env, hasUSR, reg_i, excepthook, handlers, flask_app,
                   signal_received, shutdown_event, exit_code, delivered, shutdowns,
                   pgs_active, samples, warnings, oserrors, run_host, inflight,
                   port_out, psutil, httpVars>>

\* create_wsgi_application requesting shutdown when the start-up sample is
\* above the 75MB target
CreateSample_reacts_to_high ==
    /\ pc = "c_sample" /\ stack = <<>>
    /\ samples' = log_memory_usage("WSGI Application Initialization", "")
    /\ shutdown_event' = (shutdown_event \/ psutil = "high")
    /\ pc' = IF mode = "main" THEN "m_env" ELSE "imported"
    /\ UNCHANGED <<mode, env, hasUSR, reg_i, stack, excepthook, handlers, flask_app,
                   signal_received, exit_code, delivered, shutdowns,
                   pgs_active, warnings, oserrors, create_app_calls, run_host,
                   inflight, port_out, psutil, httpVars>>

\* lines 125-127: the start-up sample, and the application is returned
CreateSample ==
    /\ pc = "c_sample" /\ stack = <<>>
    /\ samples' = log_memory_usage("WSGI Application Initialization", "")
    /\ pc' = IF mode = "main" THEN "m_env" ELSE "imported"
    /\ UNCHANGED <<mode, env, hasUSR, reg_i, stack, excepthook, handlers, flask_app,
                   signal_received, shutdown_event, exit_code, delivered, shutdowns,
                   pgs_active, warnings, oserrors, create_app_calls, run_host,
                   inflight, port_out, psutil, httpVars>>

(***************************************************************************)
(* The rest of the __main__ block (wsgi.py 489-513)                        *)
(***************************************************************************)
\* line 495: development starts the development server; any other
\* environment logs two lines and the script ends
MainEnv ==
    /\ pc = "m_env" /\ stack = <<>>
    /\ IF env["FLASK_ENV"] = StrDevelopment
       THEN /\ pc' = "m_run"
            /\ UNCHANGED exit_code
       ELSE /\ pc' = "exited"
            /\ exit_code' = 0
    /\ UNCHANGED <<mode, env, hasUSR, reg_i, stack, excepthook, handlers, flask_app,
                   signal_received, shutdown_event, delivered, shutdowns,
                   pgs_active, samples, warnings, oserrors, create_app_calls,
                   run_host, inflight, port_out, psutil, httpVars>>

\* lines 500-506: application.run starts serving with the HOST as read
MainRun ==
    /\ pc = "m_run" /\ stack = <<>>
    /\ LET host == os_getenv("HOST", StrLocalhost)
           port == validate_port_number(os_getenv("PORT", Str8000))
       IN  IF port.ok
           THEN /\ pc' = "serving"
                /\ run_host' = host
                /\ UNCHANGED exit_code
           ELSE /\ pc' = "exited"
                /\ exit_code' = 1
                /\ UNCHANGED run_host
    /\ UNCHANGED <<mode, env, hasUSR, reg_i, stack, excepthook, handlers, flask_app,
                   signal_received, shutdown_event, delivered, shutdowns,
                   pgs_active, samples, warnings, oserrors, create_app_calls,
                   inflight, port_out, psutil, httpVars>>

\* lines 506-509: application.run raises (the address cannot be bound):
\* the except clause logs and calls sys.exit(1)
MainRunRaises ==
    /\ pc = "m_run" /\ stack = <<>>
    /\ validate_port_number(os_getenv("PORT", Str8000)).ok
    /\ run_host' = os_getenv("HOST", StrLocalhost)
    /\ pc' = "exited"
    /\ exit_code' = 1
    /\ UNCHANGED <<mode, env, hasUSR, reg_i, stack, excepthook, handlers, flask_app,
                   signal_received, shutdown_event, delivered, shutdowns,
                   pgs_active, samples, warnings, oserrors, create_app_calls,
                   inflight, port_out, psutil, httpVars>>

(***************************************************************************)
(* Signal delivery: the interpreter calls signal_handler in the main       *)
(* thread, on top of whatever is running there.                            *)
(***************************************************************************)
Deliver(sig) ==
    /\ Alive
    /\ sig \in handlers
    /\ Len(delivered) < MaxSignals
    /\ delivered' = Append(delivered, sig)
    /\ stack' = Append(stack, Frame("signal", sig, "h_flag"))
    /\ UNCHANGED <<mode, env, hasUSR, pc, reg_i, excepthook, handlers, flask_app,
                   signal_received, shutdown_event, exit_code, shutdowns,
                   pgs_active, samples, warnings, oserrors, create_app_calls,
                   run_host, inflight, port_out, psutil, httpVars>>

(***************************************************************************)
(* signal_handler (wsgi.py 202-234)                                        *)
(***************************************************************************)
\* signal_handler with line 212 written as a toggle of the flag
HandlerFlag_toggle ==
    /\ Alive /\ stack # <<>> /\ Top.at = "h_flag"
    /\ signal_received' = ~signal_received
    /\ hasUSR
    /\ stack' = SetTop("h_event")
    /\ UNCHANGED <<mode, env, hasUSR, pc, reg_i, excepthook, handlers, flask_app,
                   shutdown_event, exit_code, delivered, shutdowns, pgs_active,
                   samples, warnings, oserrors, create_app_calls, run_host,
                   inflight, port_out, psutil, httpVars>>

\* lines 211-221: the flag is set and the signal_names dictionary is built;
\* the dictionary names signal.SIGUSR1 and signal.SIGUSR2
HandlerFlag ==
    /\ Alive /\ stack # <<>> /\ Top.at = "h_flag"
    /\ signal_received' = TRUE
    /\ hasUSR
    /\ stack' = SetTop("h_event")
    /\ UNCHANGED <<mode, env, hasUSR, pc, reg_i, excepthook, handlers, flask_app,
                   shutdown_event, exit_code, delivered, shutdowns, pgs_active,
                   samples, warnings, oserrors, create_app_calls, run_host,
                   inflight, port_out, psutil, httpVars>>

\* lines 211-219 where the platform has no SIGUSR1: the flag is set and
\* signal.SIGUSR1 raises AttributeError out of the handler
HandlerFlagRaises ==
    /\ Alive /\ stack # <<>> /\ Top.at = "h_flag"
    /\ signal_received' = TRUE
    /\ ~hasUSR
    /\ LET r == Unwind(Pop(stack), 0)
           m == RaisedInto(pc)
       IN  /\ pgs_active' = pgs_active - r.ended
           /\ IF r.caught = "pgs"
              THEN /\ stack' = r.stack
                   /\ UNCHANGED <<pc, exit_code, psutil, httpVars>>
              ELSE IF r.caught \in {"hook_done", "hook_error"}
              THEN /\ stack' = <<>>
                   /\ pc' = "exited"
                   /\ exit_code' = 1
              ELSE /\ stack' = m.stack
                   /\ pc' = m.pc
                   /\ exit_code' = m.exit
    /\ UNCHANGED <<mode, env, hasUSR, reg_i, excepthook, handlers, flask_app,
                   shutdown_event, delivered, shutdowns, samples, warnings,
                   oserrors, create_app_calls, run_host, inflight, port_out, psutil, httpVars>>

\* signal_handler without the log_memory_usage call of line 231
HandlerEvent_no_sample ==
    /\ Alive /\ stack # <<>> /\ Top.at = "h_event"
    /\ shutdown_event' = TRUE
    /\ stack' = SetTop("pgs_begin")
    /\ UNCHANGED <<mode, env, hasUSR, pc, reg_i, excepthook, handlers, flask_app,
                   signal_received, exit_code, delivered, shutdowns, pgs_active,
                   samples, warnings, oserrors, create_app_calls, run_host,
                   inflight, port_out, psutil, httpVars>>

\* lines 224-231: two log lines, shutdown_event.set(), and
\* log_memory_usage(f"Signal Handler ({signal_name})")
HandlerEvent ==
    /\ Alive /\ stack # <<>> /\ Top.at = "h_event"
    /\ shutdown_event' = TRUE
    /\ samples' = log_memory_usage("Signal Handler", Top.name)
    /\ stack' = SetTop("pgs_begin")
    /\ UNCHANGED <<mode, env, hasUSR, pc, reg_i, excepthook, handlers, flask_app,
                   signal_received, exit_code, delivered, shutdowns, pgs_active,
                   warnings, oserrors, create_app_calls, run_host, inflight,
                   port_out, psutil, httpVars>>

(***************************************************************************)
(* perform_graceful_shutdown (wsgi.py 258-296), called by signal_handler   *)
(* (line 234) and by exception_handler (line 467)                          *)
(***************************************************************************)
\* signal_handler calling perform_graceful_shutdown for SIGTERM and SIGINT only
ShutdownBegin_term_only ==
    /\ Alive /\ stack # <<>> /\ Top.at = "pgs_begin"
    /\ shutdowns' = IF Top.name \in {"SIGUSR1", "SIGUSR2"} THEN shutdowns
                    ELSE Append(shutdowns, Top.name)
    /\ pgs_active' = pgs_active + 1
    /\ stack' = SetTop("pgs_end")
    /\ UNCHANGED <<mode, env, hasUSR, pc, reg_i, excepthook, handlers, flask_app,
                   signal_received, shutdown_event, exit_code, delivered, samples,
                   warnings, oserrors, create_app_calls, run_host, inflight,
                   port_out, psutil, httpVars>>

\* lines 266-283: the call begins; the log lines and `if flask_app:`
ShutdownBegin ==
    /\ Alive /\ stack # <<>> /\ Top.at = "pgs_begin"
    /\ shutdowns' = Append(shutdowns, Top.name)
    /\ pgs_active' = pgs_active + 1
    /\ stack' = SetTop("pgs_end")
    /\ UNCHANGED <<mode, env, hasUSR, pc, reg_i, excepthook, handlers, flask_app,
                   signal_received, shutdown_event, exit_code, delivered, samples,
                   warnings, oserrors, create_app_calls, run_host, inflight,
                   port_out, psutil, httpVars>>

\* lines 286-291: log_memory_usage("Graceful Shutdown"), the closing log
\* lines, and the call returns.  signal_handler then returns to what it
\* interrupted; exception_handler returns and the interpreter exits with 1
ShutdownEnd ==
    /\ Alive /\ stack # <<>> /\ Top.at = "pgs_end"
    /\ samples' = log_memory_usage("Graceful Shutdown", "")
    /\ pgs_active' = pgs_active - 1
    /\ IF Top.kind = "signal"
       THEN /\ stack' = Pop(stack)
            /\ UNCHANGED <<pc, exit_code, psutil, httpVars>>
       ELSE /\ stack' = <<>>
            /\ pc' = "exited"
            /\ exit_code' = 1
    /\ UNCHANGED <<mode, env, hasUSR, reg_i, excepthook, handlers, flask_app,
                   signal_received, shutdown_event, delivered, shutdowns, warnings,
                   oserrors, create_app_calls, run_host, inflight, port_out, psutil, httpVars>>

(***************************************************************************)
(* exception_handler (wsgi.py 437-467), installed as sys.excepthook        *)
(***************************************************************************)
\* exception_handler without the log_memory_usage call of line 459
ExceptSample_no_sample ==
    /\ Alive /\ stack # <<>> /\ Top.at = "x_sample"
    /\ stack' = SetTop("pgs_begin")
    /\ UNCHANGED <<mode, env, hasUSR, pc, reg_i, excepthook, handlers, flask_app,
                   signal_received, shutdown_event, exit_code, delivered, shutdowns,
                   pgs_active, samples, warnings, oserrors, create_app_calls,
                   run_host, inflight, port_out, psutil, httpVars>>

\* lines 453-459: the error is logged and log_memory_usage("Uncaught Exception")
ExceptSample ==
    /\ Alive /\ stack # <<>> /\ Top.at = "x_sample"
    /\ samples' = log_memory_usage("Uncaught Exception", "")
    /\ stack' = SetTop("pgs_begin")
    /\ UNCHANGED <<mode, env, hasUSR, pc, reg_i, excepthook, handlers, flask_app,
                   signal_received, shutdown_event, exit_code, delivered, shutdowns,
                   pgs_active, warnings, oserrors, create_app_calls, run_host,
                   inflight, port_out, psutil, httpVars>>

(***************************************************************************)
(* Requests: the development server of application.run (line 506), or the  *)
(* WSGI server that imported `application` (line 523), hands requests to   *)
(* the application while the main thread is in its serving loop.           *)
(***************************************************************************)
Serving == pc \in {"serving", "imported"}

AcceptRequest ==
    /\ Serving /\ stack = <<>>
    /\ inflight < MaxRequests
    /\ inflight' = inflight + 1
    /\ UNCHANGED <<mode, env, hasUSR, pc, reg_i, stack, excepthook, handlers,
                   flask_app, signal_received, shutdown_event, exit_code, delivered,
                   shutdowns, pgs_active, samples, warnings, oserrors,
                   create_app_calls, run_host, port_out, psutil, httpVars>>

CompleteRequest ==
    /\ Serving
    /\ inflight > 0
    /\ inflight' = inflight - 1
    /\ UNCHANGED <<mode, env, hasUSR, pc, reg_i, stack, excepthook, handlers,
                   flask_app, signal_received, shutdown_event, exit_code, delivered,
                   shutdowns, pgs_active, samples, warnings, oserrors,
                   create_app_calls, run_host, port_out, psutil, httpVars>>

(***************************************************************************)
(* The specification of the process.                                       *)
(***************************************************************************)
Startup ==
    \/ handle_uncaught_exceptions
    \/ RegisterOk
    \/ RegisterOSError
    \/ SetupDone
    \/ CreateValidate
    \/ CreateApp
    \/ CreateAppRaises
    \/ CreateSample
    \/ MainEnv
    \/ MainRun
    \/ MainRunRaises

Handler ==
    \/ HandlerFlag
    \/ HandlerFlagRaises
    \/ HandlerEvent
    \/ ShutdownBegin
    \/ ShutdownEnd
    \/ ExceptSample

Program == Startup \/ Handler

Environment ==
    \/ \E sig \in Signals : Deliver(sig)
    \/ AcceptRequest
    \/ CompleteRequest

Next == Program \/ Environment

Spec == Init /\ [][Next]_vars

\* the interpreter keeps running the main thread; signals and requests may
\* or may not arrive
FairSpec == Spec /\ WF_vars(Program)

(***************************************************************************)
(* The process with every outcome of the psutil calls, started in          *)
(* development mode with HOST and PORT unset.                              *)
(***************************************************************************)
InitSampling ==
    /\ mode \in {"main", "import"}
    /\ env = [n \in EnvNames |-> IF n = "FLASK_ENV" THEN StrDevelopment ELSE Unset]
    /\ hasUSR \in BOOLEAN
    /\ pc = IF mode = "main" THEN MainEntry ELSE ImportEntry
    /\ psutil \in PsutilOutcomes
    /\ InitGlobals

SpecSampling == InitSampling /\ [][Next]_vars

(***************************************************************************)
(* validate_port_number on its own: one call on each PORT string over      *)
(* PortChars of at most MaxPortLen characters.                             *)
(***************************************************************************)
PortChars == {"0", "3", "5", "6", " ", "-", "+", "_", "a"}

PortStrings == UNION {[1..n -> PortChars] : n \in 0..MaxPortLen}

InitPort ==
    /\ mode = "main"
    /\ \E s \in PortStrings :
          env = [n \in EnvNames |-> IF n = "PORT" THEN s ELSE Unset]
    /\ hasUSR = TRUE
    /\ pc = "unit"
    /\ psutil = "ok"
    /\ InitGlobals

\* port_out = validate_port_number(os.environ['PORT'])
ValidatePortCall ==
    /\ pc = "unit"
    /\ port_out' = validate_port_number(env["PORT"])
    /\ pc' = "unit_done"
    /\ UNCHANGED <<mode, env, hasUSR, reg_i, stack, excepthook, handlers, flask_app,
                   signal_received, shutdown_event, exit_code, delivered, shutdowns,
                   pgs_active, samples, warnings, oserrors, create_app_calls,
                   run_host, inflight, psutil, httpVars>>

NextPort == ValidatePortCall

SpecPort == InitPort /\ [][NextPort]_vars

(***************************************************************************)
(* The Flask application of app.py.  A response is its status code, the    *)
(* object given to jsonify (a record of JSON values) and its headers.      *)
(***************************************************************************)
\* JSON values, as jsonify writes them
JStr(s) == [str |-> s]
JNum(n) == [num |-> n]
JBool(b) == [bool |-> b]
JList(l) == [list |-> l]

\* datetime.now().isoformat(), time.time() and the request id differ from
\* request to request and carry no information of the application
Timestamp == JStr("<timestamp>")
Uptime == [float |-> "<time>"]
RequestId == "req_<ms>"

\* the route that test_500_internal_server_error_handler adds to the
\* application: its view function raises
TestErrorPath == "/test-error"
TestErrorMessage == "Test exception for error handler validation"

ConfigNames == {"production", "development", "testing"}
Methods == {"GET", "HEAD", "OPTIONS", "POST"}
Paths == {"/hello", "/health", "/nonexistent-endpoint", TestErrorPath}

\* an exception raised inside the try block of a view function, by its message
Faults == {"none", "boom", "bang"}

Requests == [method : Methods, path : Paths, fault : Faults]

\* the methods of a rule of app.url_map: Flask adds HEAD and OPTIONS to GET
RouteMethods(path) ==
    IF path \in {"/hello", "/health", TestErrorPath}
    THEN {"GET", "HEAD", "OPTIONS"} ELSE {}

\* ', '.join(error.valid_methods)
AllowValue == "GET, HEAD, OPTIONS"

SetHeader(headers, name, value) == (name :> value) @@ headers

\* jsonify(data): a 200 response with the JSON content type
jsonify(data) ==
    [status |-> 200, body |-> data,
     headers |-> ("Content-Type" :> "application/json")]

\* what a view function does: it returns a response or raises
Returned(resp) == [raised |-> FALSE, response |-> resp, exc |-> ""]
Raised(message) == [raised |-> TRUE, response |-> NoResponse, exc |-> message]

\* the value None of a configuration key
PyNone == "<None>"

\* configure_flask_settings(app, environment) with FLASK_ENV unset; debug is
\* FLASK_DEBUG == 'true'
\* The session cookie keys that a branch does not set keep the defaults of
\* Flask: SESSION_COOKIE_HTTPONLY True, SESSION_COOKIE_SAMESITE None.
configure_flask_settings(environment, debug) ==
    [ENV |-> environment,
     DEBUG |-> IF environment = "development" THEN debug ELSE FALSE,
     TESTING |-> environment = "testing",
     SESSION_COOKIE_SECURE |-> environment = "production",
     SESSION_COOKIE_HTTPONLY |-> environment # "testing",
     SESSION_COOKIE_SAMESITE |-> IF environment = "production" THEN "Lax" ELSE PyNone]

\* the error response of the except clause of hello_route_handler
HelloErrorResponse ==
    [jsonify([status |-> JStr("error"),
              message |-> JStr("Internal server error in hello endpoint"),
              timestamp |-> Timestamp])
        EXCEPT !.status = 500]

\* hello_route_handler answering 200 only while no request has failed
hello_route_handler_stateful(req) ==
    IF req.fault # "none" \/ \E i \in 1..Len(history) : history[i].status >= 500
    THEN Returned(HelloErrorResponse)
    ELSE LET r == jsonify([message |-> JStr("Hello world"),
                           timestamp |-> Timestamp,
                           status |-> JStr("success")])
         IN  Returned([r EXCEPT !.status = 200,
                                !.headers = SetHeader(SetHeader(@, "Content-Type",
                                                "application/json"),
                                                "X-API-Version", "1.0")])

\* hello_route_handler (app.py 367-424)
hello_route_handler(req) ==
    IF req.fault # "none"
    THEN Returned(HelloErrorResponse)
    ELSE LET r == jsonify([message |-> JStr("Hello world"),
                           timestamp |-> Timestamp,
                           status |-> JStr("success")])
         IN  Returned([r EXCEPT !.status = 200,
                                !.headers = SetHeader(SetHeader(@, "Content-Type",
                                                "application/json"),
                                                "X-API-Version", "1.0")])

\* health_check_handler (app.py 426-463)
health_check_handler(req) ==
    IF req.fault # "none"
    THEN Returned([jsonify([status |-> JStr("unhealthy"),
                            error |-> JStr(req.fault),
                            timestamp |-> Timestamp])
                      EXCEPT !.status = 503])
    ELSE LET r == jsonify([status |-> JStr("healthy"),
                           timestamp |-> Timestamp,
                           uptime |-> Uptime,
                           version |-> JStr("1.0.0"),
                           environment |-> JStr(app_config.ENV),
                           debug |-> JBool(app_config.DEBUG)])
         IN  Returned([r EXCEPT !.status = 200,
                                !.headers = SetHeader(@, "Cache-Control",
                                                "no-cache, no-store, must-revalidate")])

\* the view function of the test: raise Exception(...)
test_error(req) == Raised(TestErrorMessage)

\* not_found_handler (app.py 479-516)
not_found_handler(req) ==
    [jsonify([status |-> JNum(404),
              error |-> JStr("Not Found"),
              message |-> JStr("The requested resource was not found on this server"),
              path |-> JStr(req.path),
              method |-> JStr(req.method),
              timestamp |-> Timestamp])
        EXCEPT !.status = 404,
               !.headers = SetHeader(@, "Content-Type", "application/json")]

\* method_not_allowed_handler (app.py 518-554)
method_not_allowed_handler(req) ==
    [jsonify([status |-> JNum(405),
              error |-> JStr("Method Not Allowed"),
              message |-> JStr(<<"The ", req.method,
                                 " method is not allowed for this resource">>),
              path |-> JStr(req.path),
              method |-> JStr(req.method),
              allowed_methods |-> JList(RouteMethods(req.path)),
              timestamp |-> Timestamp])
        EXCEPT !.status = 405,
               !.headers = SetHeader(SetHeader(@, "Content-Type", "application/json"),
                                     "Allow", AllowValue)]

\* internal_server_error_handler (app.py 556-600)
internal_server_error_handler(req) ==
    [jsonify([status |-> JNum(500),
              error |-> JStr("Internal Server Error"),
              message |-> JStr("An unexpected error occurred while processing your request"),
              timestamp |-> Timestamp,
              request_id |-> JStr(RequestId)])
        EXCEPT !.status = 500,
               !.headers = SetHeader(@, "Content-Type", "application/json")]

\* generic_exception_handler (app.py 602-632)
generic_exception_handler(req) ==
    [jsonify([status |-> JNum(500),
              error |-> JStr("Unexpected Error"),
              message |-> JStr("An unexpected error occurred"),
              timestamp |-> Timestamp])
        EXCEPT !.status = 500]

(***************************************************************************)
(* The error handler Flask finds for an exception among those registered   *)
(* by register_error_handlers: the handler of the status code for an       *)
(* HTTPException with a registered code, otherwise the handler of the      *)
(* nearest registered class, which for every other exception is the        *)
(* handler of Exception.                                                   *)
(***************************************************************************)
find_error_handler(exc_class, req) ==
    CASE exc_class = "NotFound" -> not_found_handler(req)
      [] exc_class = "MethodNotAllowed" -> method_not_allowed_handler(req)
      [] exc_class = "InternalServerError" -> internal_server_error_handler(req)
      [] OTHER -> generic_exception_handler(req)

\* after_request_middleware (app.py 326-352); before_request_middleware has
\* set request.start_time and request.id for every request
after_request_middleware(resp) ==
    [resp EXCEPT !.headers = SetHeader(SetHeader(@, "X-Response-Time", "<ms>"),
                                       "X-Request-ID", RequestId)]

\* add_security_headers without the X-Frame-Options entry
add_security_headers_no_frame(resp) ==
    [resp EXCEPT !.headers =
        ( "X-Content-Type-Options" :> "nosniff"
       @@ "X-XSS-Protection" :> "1; mode=block"
       @@ "Referrer-Policy" :> "strict-origin-when-cross-origin"
       @@ "Content-Security-Policy" :> "default-src 'self'"
       @@ "X-Permitted-Cross-Domain-Policies" :> "none"
       @@ [h \in (DOMAIN resp.headers) \ {"Server"} |-> resp.headers[h]] )]

\* add_security_headers (app.py 223-253)
add_security_headers(resp) ==
    [resp EXCEPT !.headers =
        ( "X-Content-Type-Options" :> "nosniff"
       @@ "X-Frame-Options" :> "DENY"
       @@ "X-XSS-Protection" :> "1; mode=block"
       @@ "Referrer-Policy" :> "strict-origin-when-cross-origin"
       @@ "Content-Security-Policy" :> "default-src 'self'"
       @@ "X-Permitted-Cross-Domain-Policies" :> "none"
       @@ [h \in (DOMAIN resp.headers) \ {"Server"} |-> resp.headers[h]] )]

\* the after_request functions, last registered first: after_request_middleware
\* (create_app line 109), then add_security_headers (line 101).  The function
\* Flask-CORS registers between them adds nothing to a request without Origin.
process_response(resp) == add_security_headers(after_request_middleware(resp))

\* the view function of a rule
view_function(req) ==
    CASE req.path = "/hello" -> hello_route_handler(req)
      [] req.path = "/health" -> health_check_handler(req)
      [] req.path = TestErrorPath -> test_error(req)

\* the response Flask makes itself for OPTIONS
make_default_options_response ==
    [status |-> 200, body |-> <<>>,
     headers |-> ("Content-Type" :> "text/html; charset=utf-8" @@ "Allow" :> AllowValue)]

\* routing and the view function, with the exceptions of both given to the
\* registered error handlers
dispatch_request(req) ==
    IF RouteMethods(req.path) = {} THEN find_error_handler("NotFound", req)
    ELSE IF req.method \notin RouteMethods(req.path)
         THEN find_error_handler("MethodNotAllowed", req)
    ELSE IF req.method = "OPTIONS" THEN make_default_options_response
    ELSE LET rv == view_function(req)
         IN  IF rv.raised THEN find_error_handler("Exception", req)
             ELSE rv.response

\* the application called for one request; the body of the response to HEAD
\* is not sent
wsgi_app(req) ==
    LET resp == process_response(dispatch_request(req))
    IN  IF req.method = "HEAD" THEN [resp EXCEPT !.body = <<>>] ELSE resp

(***************************************************************************)
(* The application under test: create_app(config_name), then requests.     *)
(***************************************************************************)
InitHttp ==
    /\ mode = "import"
    /\ env = [n \in EnvNames |-> Unset]
    /\ hasUSR = TRUE
    /\ pc = "http_create"
    /\ psutil = "ok"
    /\ InitGlobals

\* app = create_app(config_name) (app.py 63-124)
create_app ==
    /\ pc = "http_create"
    /\ \E config_name \in ConfigNames, debug \in BOOLEAN :
          app_config' = configure_flask_settings(config_name, debug)
    /\ pc' = "http"
    /\ UNCHANGED <<mode, env, hasUSR, reg_i, stack, excepthook, handlers, flask_app,
                   signal_received, shutdown_event, exit_code, delivered, shutdowns,
                   pgs_active, samples, warnings, oserrors, create_app_calls,
                   run_host, inflight, port_out, psutil, history, response>>

\* the application answers one request
HandleRequest ==
    /\ pc = "http"
    /\ Len(history) < MaxHistory
    /\ \E req \in Requests :
          LET resp == wsgi_app(req)
          IN  /\ response' = resp
              /\ history' = Append(history, [method |-> req.method, path |-> req.path,
                                             fault |-> req.fault,
                                             status |-> resp.status])
    /\ UNCHANGED <<mode, env, hasUSR, pc, reg_i, stack, excepthook, handlers,
                   flask_app, signal_received, shutdown_event, exit_code, delivered,
                   shutdowns, pgs_active, samples, warnings, oserrors,
                   create_app_calls, run_host, inflight, port_out, psutil,
                   app_config>>

NextHttp == create_app \/ HandleRequest

SpecHttp == InitHttp /\ [][NextHttp]_vars

(***************************************************************************)
(* Decimal strings, written independently of int().                        *)
(***************************************************************************)
DigitChar(d) ==
    CASE d = 0 -> "0" [] d = 1 -> "1" [] d = 2 -> "2" [] d = 3 -> "3"
      [] d = 4 -> "4" [] d = 5 -> "5" [] d = 6 -> "6" [] d = 7 -> "7"
      [] d = 8 -> "8" [] d = 9 -> "9"

\* str(n) for n >= 0
RECURSIVE IntToStr(_)
IntToStr(n) ==
    IF n < 10 THEN <<DigitChar(n)>>
    ELSE Append(IntToStr(n \div 10), DigitChar(n % 10))

\* str(p) for every valid port p
ValidPortStrings == {IntToStr(p) : p \in 1..65535}

\* s without the underscores that stand between two digits
RECURSIVE DropGrouping(_, _)
DropGrouping(s, i) ==
    IF i > Len(s) THEN <<>>
    ELSE IF /\ s[i] = "_" /\ i > 1 /\ i < Len(s)
            /\ s[i - 1] \in DigitChars /\ s[i + 1] \in DigitChars
         THEN DropGrouping(s, i + 1)
         ELSE <<s[i]>> \o DropGrouping(s, i + 1)

RECURSIVE DropZeros(_)
DropZeros(s) == IF Len(s) > 1 /\ Head(s) = "0" THEN DropZeros(Tail(s)) ELSE s

\* s without surrounding whitespace, one leading "+", digit grouping and
\* leading zeros
Canonical(s) ==
    LET t == Strip(s)
        u == IF t # <<>> /\ Head(t) = "+" THEN Tail(t) ELSE t
    IN  IF u = <<>> THEN u ELSE DropZeros(DropGrouping(u, 1))

(***************************************************************************)
(* C7 as stated: validate_port_number(s) returns p exactly when s is the   *)
(* decimal string of an integer p in 1..65535, and fails for every other   *)
(* string.                                                                 *)
(***************************************************************************)
C7_ExactlyDecimalString ==
    port_out.called =>
        (port_out.ok <=> env["PORT"] \in ValidPortStrings)

(***************************************************************************)
(* C7 (amended): validate_port_number(s) returns p exactly when s, read    *)
(* the way int() reads it (surrounding whitespace, one leading "+",        *)
(* single underscores between digits and leading zeros dropped), is the    *)
(* decimal string of an integer p with 1 <= p <= 65535, and p is that      *)
(* integer; every other string fails.                                      *)
(***************************************************************************)
C7_PortOfCanonicalString ==
    port_out.called =>
        /\ port_out.ok <=> Canonical(env["PORT"]) \in ValidPortStrings
        /\ port_out.ok => /\ port_out.val \in 1..65535
                          /\ IntToStr(port_out.val) = Canonical(env["PORT"])
        /\ env["PORT"] \in ValidPortStrings =>
              /\ port_out.ok
              /\ IntToStr(port_out.val) = env["PORT"]

\* a port is returned for a string that is not the decimal string of the port
C7_Witness ==
    /\ pc = "unit_done"
    /\ port_out.ok
    /\ port_out.val = 6553
    /\ env["PORT"] # IntToStr(port_out.val)

(***************************************************************************)
(* Notions the claims use.                                                 *)
(***************************************************************************)
Exited(code) == pc = "exited" /\ exit_code = code

\* the development server started by application.run (line 506) is serving
DevServing == mode = "main" /\ pc = "serving"

\* signal_handler is running for a termination signal that interrupted the
\* serving loop of application.run
TerminationSignalWhileServing ==
    /\ DevServing
    /\ stack # <<>>
    /\ stack[1].kind = "signal"
    /\ stack[1].name \in {"SIGTERM", "SIGINT"}

\* a graceful shutdown has begun while application.run is serving
Draining == DevServing /\ shutdowns # <<>>

\* the PORT and HOST values that start-up reads (lines 105-106)
PortRead == os_getenv("PORT", Str8000)
HostRead == os_getenv("HOST", StrDefaultHost)

PortInvalid == Canonical(PortRead) \notin ValidPortStrings

AppCreatedOrStarted ==
    \/ create_app_calls > 0
    \/ flask_app # "None"
    \/ run_host # NoHost
    \/ Serving

(***************************************************************************)
(* C1: after SIGTERM or SIGINT is delivered to a serving process and no    *)
(* request remains in flight, the process eventually stops serving and     *)
(* exits with code 0.  Stated for the first signal delivered to the        *)
(* process that runs wsgi.py as the main program, on a platform that has   *)
(* SIGUSR1 and SIGUSR2.                                                    *)
(***************************************************************************)
C1_SignalLeadsToExit0 ==
    (TerminationSignalWhileServing /\ Len(delivered) = 1 /\ hasUSR /\ inflight = 0)
        ~> (Exited(0) \/ inflight > 0)

(***************************************************************************)
(* C2: whatever shutdown triggers arrive, perform_graceful_shutdown is     *)
(* executed at most once and is never entered while it is in progress.     *)
(***************************************************************************)
C2_ShutdownRunsOnce == Len(shutdowns) <= 1 /\ pgs_active <= 1

(***************************************************************************)
(* C3: the cause of the shutdown is the first signal received: once the    *)
(* handler of the first signal has triggered the state and begun the       *)
(* shutdown, a later signal begins no shutdown with another cause.         *)
(***************************************************************************)
C3_FirstSignalIsTheCause ==
    (delivered # <<>> /\ shutdowns # <<>> /\ shutdowns[1] = delivered[1]) =>
        \A i \in 1..Len(shutdowns) :
            shutdowns[i] \in Signals => shutdowns[i] = delivered[1]

(***************************************************************************)
(* C4: with an invalid PORT the application is never created or started    *)
(* (no create_app call, no application.run call, nothing is served); the   *)
(* only exit code is 1, and run as the main program the process has a      *)
(* step to take until it has exited with code 1.                           *)
(***************************************************************************)
C4_InvalidPortNeverStarts ==
    PortInvalid =>
        /\ ~AppCreatedOrStarted
        /\ pc \notin {"c_create_app", "c_sample", "m_env", "m_run"}
        /\ exit_code \in {NoExit, 1}
        /\ mode = "main" => (Exited(1) \/ ENABLED Program)

\* PORT=99999 run as the main program: exited with 1, nothing was created
C4_Witness ==
    /\ PortRead = <<"9", "9", "9", "9", "9">>
    /\ mode = "main"
    /\ Exited(1)
    /\ create_app_calls = 0

(***************************************************************************)
(* C5: a drain that does not complete does not last forever: the process   *)
(* forcibly terminates the router and exits with code 1.  Stated for the   *)
(* first signal delivered.                                                 *)
(***************************************************************************)
C5_DrainEndsOrExit1 ==
    (Draining /\ Len(delivered) = 1 /\ inflight > 0) ~> (inflight = 0 \/ Exited(1))

(***************************************************************************)
(* C6: once a graceful shutdown has begun, the server started by           *)
(* application.run accepts no new request.                                 *)
(***************************************************************************)
C6_NoAcceptAfterShutdown == [][Draining => inflight' <= inflight]_vars

(***************************************************************************)
(* C8: a HOST that is empty or whitespace-only makes start-up fail before  *)
(* the application is created or started, and an accepted HOST is used     *)
(* trimmed.                                                                *)
(***************************************************************************)
C8_HostValidated ==
    /\ Strip(HostRead) = <<>> => ~AppCreatedOrStarted
    /\ run_host # NoHost => run_host = Strip(run_host)

(***************************************************************************)
(* C9: in both entry modes setup_signal_handlers has returned before the   *)
(* application is created and before it serves: the handlers of SIGTERM    *)
(* and SIGINT are then registered, unless a signal.signal call raised, and *)
(* no handler is registered once the application exists.                   *)
(***************************************************************************)
C9_SetupReturned ==
    (AppCreatedOrStarted \/ pc \in {"c_create_app", "c_sample"}) =>
        /\ reg_i = Len(RegOrder) + 1
        /\ oserrors = {} => {"SIGTERM", "SIGINT"} \subseteq handlers

\* C9: the handlers are registered before the application is created, in
\* every state and at every step
C9_HandlersBeforeApp ==
    /\ []C9_SetupReturned
    /\ [][AppCreatedOrStarted' => handlers' = handlers]_vars

\* imported by a WSGI server and serving, with the handlers registered
C9_Witness ==
    /\ mode = "import"
    /\ Serving
    /\ {"SIGTERM", "SIGINT"} \subseteq handlers

(***************************************************************************)
(* C10: when signal.signal raises OSError for one signal, a warning is     *)
(* logged, the handlers of all remaining signals are still registered, and *)
(* start-up goes on.                                                       *)
(***************************************************************************)
C10_RemainingSignalsRegistered ==
    pc \notin {"m_hook", "setup"} =>
        /\ oserrors # {} => warnings > 0
        /\ \A sig \in Signals :
              (sig \notin oserrors /\ (sig \in {"SIGUSR1", "SIGUSR2"} => hasUSR))
                  => sig \in handlers

(***************************************************************************)
(* Notions of the claims about samples and shutdown causes.                *)
(***************************************************************************)
StartupContext == "WSGI Application Initialization"

SampleContexts == [i \in 1..Len(samples) |-> samples[i].context]

CountSamples(context) ==
    Cardinality({i \in 1..Len(samples) : samples[i].context = context})

CountShutdowns(name) ==
    Cardinality({i \in 1..Len(shutdowns) : shutdowns[i] = name})

\* signal_handler, or perform_graceful_shutdown called by it, is what runs
InSignalHandler == stack # <<>> /\ Top.kind = "signal"

\* exception_handler has been called by the interpreter and has not returned
HookRunning == stack # <<>> /\ stack[1].kind = "except"

(***************************************************************************)
(* C11: signal_handler only sets the shutdown flag and event: no step that *)
(* runs inside the handler takes a resource sample or does shutdown work.  *)
(***************************************************************************)
C11_HandlerOnlySetsFlag ==
    [][InSignalHandler => (samples' = samples /\ shutdowns' = shutdowns)]_vars

(***************************************************************************)
(* C12: an uncaught exception that reaches exception_handler causes one    *)
(* "Uncaught Exception" sample and then one call of                        *)
(* perform_graceful_shutdown, the routine the signal handler calls: the    *)
(* routine is never begun for an exception before the sample, the handler  *)
(* always has a step to take, and where no signal handler can raise into   *)
(* it the process ends with the sample and the completed routine.          *)
(***************************************************************************)
C12_ExceptionSampleThenShutdown ==
    /\ CountSamples("Uncaught Exception") <= 1
    /\ CountShutdowns("UNCAUGHT_EXCEPTION") <= CountSamples("Uncaught Exception")
    /\ HookRunning =>
          /\ ENABLED Program
          /\ stack[1].at = "x_sample" => CountSamples("Uncaught Exception") = 0
          /\ stack[1].at = "pgs_begin" =>
                /\ CountSamples("Uncaught Exception") = 1
                /\ CountShutdowns("UNCAUGHT_EXCEPTION") = 0
          /\ stack[1].at = "pgs_end" =>
                /\ CountSamples("Uncaught Exception") = 1
                /\ CountShutdowns("UNCAUGHT_EXCEPTION") = 1
    /\ pc = "excepthook" => HookRunning
    /\ (hasUSR /\ pc = "exited" /\ excepthook /\ CountSamples("Uncaught Exception") = 1) =>
          /\ CountShutdowns("UNCAUGHT_EXCEPTION") = 1
          /\ samples[Len(samples)].context = "Graceful Shutdown"
          /\ exit_code = 1

\* PORT invalid, run as the main program: the sample, then the routine
C12_Witness ==
    /\ pc = "exited"
    /\ SampleContexts = <<"Uncaught Exception", "Graceful Shutdown">>
    /\ shutdowns = <<"UNCAUGHT_EXCEPTION">>

(***************************************************************************)
(* C13: every fatal error is routed through perform_graceful_shutdown and  *)
(* ends the process with exit code 1.  Stated for the process that runs    *)
(* wsgi.py as the main program and receives no signal.                     *)
(***************************************************************************)
C13_FatalErrorsShutDownAndExit1 ==
    (mode = "main" /\ pc = "exited" /\ exit_code # 0 /\ delivered = <<>>) =>
        /\ exit_code = 1
        /\ CountShutdowns("UNCAUGHT_EXCEPTION") = 1

(***************************************************************************)
(* C14: log_memory_usage never propagates an error.  When psutil fails the *)
(* call logs a warning and returns, and the caller goes on: start-up       *)
(* reaches the code after its sample, signal_handler and exception_handler *)
(* reach perform_graceful_shutdown, and perform_graceful_shutdown returns. *)
(***************************************************************************)
C14_SamplingNeverRaises ==
    /\ \A i \in 1..Len(samples) :
          /\ samples[i].measured = (psutil # "fails")
          /\ ~samples[i].measured => samples[i].warned
    /\ pc \in {"m_env", "m_run", "serving", "imported"} =>
          CountSamples(StartupContext) = 1
    /\ \A k \in 1..Len(stack) :
          stack[k].at \in {"pgs_begin", "pgs_end"} =>
              IF stack[k].kind = "signal"
              THEN \E i \in 1..Len(samples) :
                      /\ samples[i].context = "Signal Handler"
                      /\ samples[i].name = stack[k].name
              ELSE CountSamples("Uncaught Exception") = 1
    /\ hasUSR => CountSamples("Graceful Shutdown") = Len(shutdowns) - pgs_active

\* psutil fails at the three checkpoints of a served SIGTERM, and the
\* process is serving again
C14_Witness ==
    /\ psutil = "fails"
    /\ Serving /\ stack = <<>>
    /\ delivered = <<"SIGTERM">>
    /\ Len(samples) = 3
    /\ \A i \in 1..Len(samples) : ~samples[i].measured /\ samples[i].warned

(***************************************************************************)
(* C15: in a run where start-up succeeds and one SIGTERM is delivered      *)
(* after the start-up sample, on a platform that has SIGUSR1 and SIGUSR2,  *)
(* the samples are: the start-up sample, then the sample of the signal     *)
(* handler, then the sample of perform_graceful_shutdown, each once.       *)
(***************************************************************************)
C15_SampleOrder ==
    /\ (Serving /\ delivered = <<>>) => SampleContexts = <<StartupContext>>
    /\ (/\ hasUSR /\ Serving /\ stack = <<>>
        /\ delivered = <<"SIGTERM">>
        /\ samples # <<>> /\ samples[1].context = StartupContext) =>
          /\ SampleContexts = <<StartupContext, "Signal Handler", "Graceful Shutdown">>
          /\ samples[2].name = "SIGTERM"

\* SIGTERM delivered while application.run serves, and the handler has returned
C15_Witness ==
    /\ DevServing /\ stack = <<>>
    /\ delivered = <<"SIGTERM">>
    /\ Len(samples) = 3
    /\ samples[1].context = StartupContext

(***************************************************************************)
(* C16: signal_received and shutdown_event are false until a signal is     *)
(* delivered, and no step resets either of them once it is true.           *)
(***************************************************************************)
C16_ShutdownStateOneShot ==
    /\ [](delivered = <<>> => (~signal_received /\ ~shutdown_event))
    /\ [][/\ signal_received => signal_received'
          /\ shutdown_event => shutdown_event']_vars

\* two signals have been handled and the state is still triggered
C16_Witness ==
    /\ signal_received /\ shutdown_event
    /\ Len(delivered) = 2
    /\ Serving /\ stack = <<>>

(***************************************************************************)
(* C17: flask_app is absent before create_app has been called, and it is   *)
(* absent again once a graceful shutdown that began after start-up has     *)
(* completed.                                                              *)
(***************************************************************************)
C17_HandleOnlyWhileRunning ==
    /\ create_app_calls = 0 => flask_app = "None"
    /\ (/\ Serving /\ stack = <<>> /\ pgs_active = 0
        /\ shutdowns # <<>>
        /\ samples # <<>> /\ samples[1].context = StartupContext) =>
          flask_app = "None"

(***************************************************************************)
(* Notions of the claims about the Flask application.                      *)
(***************************************************************************)
\* the request the application answered last
LastRequest == history[Len(history)]

Answered == history # <<>> /\ response.status # 0

\* the request is one a view function is run for and it raises out of it
ViewRaised(req) ==
    /\ req.method \in {"GET", "HEAD"}
    /\ req.path = TestErrorPath

(***************************************************************************)
(* C18: the application is stateless across requests: every GET /hello is  *)
(* answered with status 200 and message 'Hello world', whatever requests,  *)
(* answered successfully or with an error, came before it.  An exception   *)
(* raised inside the view function itself is not a request.                *)
(***************************************************************************)
C18_HelloIsStateless ==
    /\ \A i \in 1..Len(history) :
          (history[i].method = "GET" /\ history[i].path = "/hello"
              /\ history[i].fault = "none") => history[i].status = 200
    /\ (Answered /\ LastRequest.method = "GET" /\ LastRequest.path = "/hello"
            /\ LastRequest.fault = "none") =>
          /\ response.status = 200
          /\ response.body.message = JStr("Hello world")

\* GET /hello answered after a request that failed with 500
C18_Witness ==
    /\ Len(history) = 2
    /\ history[1].status = 500
    /\ history[2].method = "GET" /\ history[2].path = "/hello"
    /\ response.status = 200
    /\ response.body.message = JStr("Hello world")

(***************************************************************************)
(* C19: every response of the application, successful or an error (404,    *)
(* 405, 500), carries X-Content-Type-Options: nosniff, X-Frame-Options:    *)
(* DENY and X-XSS-Protection: 1; mode=block.                               *)
(***************************************************************************)
C19_SecurityHeadersOnEveryResponse ==
    Answered =>
        /\ {"X-Content-Type-Options", "X-Frame-Options", "X-XSS-Protection"}
              \subseteq DOMAIN response.headers
        /\ response.headers["X-Content-Type-Options"] = "nosniff"
        /\ response.headers["X-Frame-Options"] = "DENY"
        /\ response.headers["X-XSS-Protection"] = "1; mode=block"

\* the three kinds of error response have been sent, among them the last
C19_Witness ==
    /\ Answered
    /\ response.status = 405
    /\ history[1].status \in {404, 500}
    /\ response.headers["X-Frame-Options"] = "DENY"

(***************************************************************************)
(* C20: when a view function raises an exception that it does not handle,  *)
(* the client receives a JSON response with HTTP status 500 whose body has *)
(* status 500 and error 'Internal Server Error'.                           *)
(***************************************************************************)
C20_UnhandledExceptionIs500 ==
    (Answered /\ LastRequest.method = "GET" /\ ViewRaised(LastRequest)) =>
        /\ response.status = 500
        /\ response.headers["Content-Type"] = "application/json"
        /\ response.body.status = JNum(500)
        /\ response.body.error = JStr("Internal Server Error")

(***************************************************************************)
(* C21: no error response (404, 405, 500, or the 503 of /health) contains  *)
(* the text of the exception that caused it: the same request answered     *)
(* with an exception of another message has the same response body.        *)
(* Timestamps are one value in every body.                                 *)
(***************************************************************************)
C21_NoExceptionTextInErrorBody ==
    (Answered /\ response.status >= 400 /\ LastRequest.fault # "none") =>
        \A f \in Faults \ {"none"} :
            wsgi_app([method |-> LastRequest.method, path |-> LastRequest.path,
                      fault |-> f]).body = response.body

(***************************************************************************)
(* C22: an application created by create_app() with its default            *)
(* (production) configuration has SESSION_COOKIE_SECURE true,              *)
(* SESSION_COOKIE_HTTPONLY true and SESSION_COOKIE_SAMESITE 'Strict'.      *)
(***************************************************************************)
C22_ProductionSessionCookies ==
    (pc = "http" /\ app_config.ENV = "production") =>
        /\ app_config.SESSION_COOKIE_SECURE
        /\ app_config.SESSION_COOKIE_HTTPONLY
        /\ app_config.SESSION_COOKIE_SAMESITE = "Strict"

(***************************************************************************)
(* C23: after a successful start-up the process does not exit unless a     *)
(* signal or a fatal error has arrived, in every environment mode.  Stated *)
(* for the process that runs wsgi.py as the main program: once the         *)
(* application is created and no signal has been delivered, the process    *)
(* has not exited, except with status 1 after a fatal error.               *)
(***************************************************************************)
C23_ServesUntilSignalOrError ==
    (mode = "main" /\ CountSamples(StartupContext) = 1 /\ delivered = <<>>) =>
        (pc # "exited" \/ exit_code = 1)

(***************************************************************************)
(* C24: SIGUSR1 and SIGUSR2, where registered, are handled as SIGTERM is.  *)
(* While the first signal of a run is handled, and after its handler has   *)
(* returned, the flag, the event, the samples taken, the shutdown calls    *)
(* begun and ended are those given below for the position of the handler,  *)
(* whichever of the four signals it is; only the name recorded in the      *)
(* sample and in the shutdown call is that of the signal.                  *)
(***************************************************************************)
\* one signal has been delivered, where signal.SIGUSR1 exists, and no
\* exception has reached exception_handler
FirstSignalOnly ==
    /\ hasUSR
    /\ Len(delivered) = 1
    /\ ~HookRunning
    /\ CountSamples("Uncaught Exception") = 0

\* where signal_handler is: the position of its frame, or "returned"
HandlerAt == IF stack = <<>> THEN "returned" ELSE Top.at

C24_SignalsHandledAlike ==
    FirstSignalOnly =>
        /\ delivered[1] \in handlers
        /\ stack # <<>> =>
              /\ Len(stack) = 1
              /\ Top.kind = "signal"
              /\ Top.name = delivered[1]
        /\ signal_received = (HandlerAt # "h_flag")
        /\ shutdown_event = (HandlerAt \notin {"h_flag", "h_event"})
        /\ CountSamples("Signal Handler") =
              IF HandlerAt \in {"h_flag", "h_event"} THEN 0 ELSE 1
        /\ \A i \in 1..Len(samples) :
              samples[i].context = "Signal Handler" => samples[i].name = delivered[1]
        /\ shutdowns = IF HandlerAt \in {"pgs_end", "returned"}
                       THEN <<delivered[1]>> ELSE <<>>
        /\ pgs_active = IF HandlerAt = "pgs_end" THEN 1 ELSE 0
        /\ CountSamples("Graceful Shutdown") = IF HandlerAt = "returned" THEN 1 ELSE 0

\* SIGUSR1 delivered to a serving process, and its handler has returned
C24_Witness ==
    /\ Serving /\ stack = <<>>
    /\ delivered = <<"SIGUSR1">>
    /\ shutdowns = <<"SIGUSR1">>
    /\ signal_received /\ shutdown_event

(***************************************************************************)
(* C25: validate_port_number has no side effect beyond its result: it      *)
(* makes no logger call and leaves flask_app, signal_received and          *)
(* shutdown_event as they were, for valid and for invalid input.           *)
(***************************************************************************)
C25_ValidateHasNoSideEffect ==
    port_out.called =>
        /\ port_out.logs = <<>>
        /\ flask_app = "None"
        /\ ~signal_received
        /\ ~shutdown_event

(***************************************************************************)
(* C26: resource sampling is purely observational.  A step that takes a    *)
(* sample, whether psutil answers within the target, above it, or raises,  *)
(* leaves flask_app and signal_received unchanged, leaves shutdown_event   *)
(* unchanged (the step of signal_handler that samples also runs            *)
(* shutdown_event.set() of line 228, before the sample), and continues at  *)
(* the position that follows the call in the code, which does not depend   *)
(* on what was sampled.                                                    *)
(***************************************************************************)
\* where the code continues after the log_memory_usage call it is about to
\* make: after line 125, 231, 286 or 459
AfterSample ==
    IF stack = <<>>
    THEN [pc |-> IF mode = "main" THEN "m_env" ELSE "imported", stack |-> <<>>]
    ELSE IF Top.at = "pgs_end"
         THEN IF Top.kind = "signal"
              THEN [pc |-> pc, stack |-> Pop(stack)]
              ELSE [pc |-> "exited", stack |-> <<>>]
         ELSE [pc |-> pc, stack |-> SetTop("pgs_begin")]

C26_SamplingIsObservational ==
    [][samples' # samples =>
          /\ Len(samples') = Len(samples) + 1
          /\ flask_app' = flask_app
          /\ signal_received' = signal_received
          /\ shutdown_event' = (shutdown_event \/ (stack # <<>> /\ Top.at = "h_event"))
          /\ pc' = AfterSample.pc
          /\ stack' = AfterSample.stack]_vars

\* the start-up sample found memory above the target, and the application
\* was created and handed to the WSGI server all the same
C26_Witness ==
    /\ psutil = "high"
    /\ pc = "imported" /\ stack = <<>> /\ delivered = <<>>
    /\ Len(samples) = 1
    /\ samples[1].context = StartupContext
    /\ samples[1].measured /\ samples[1].warned
    /\ flask_app = "app"
    /\ ~signal_received /\ ~shutdown_event

(***************************************************************************)
(* C27: whenever perform_graceful_shutdown has started, whether called by  *)
(* signal_handler or by exception_handler, signal_received is true and     *)
(* shutdown_event is set.                                                  *)
(***************************************************************************)
C27_ShutdownImpliesTriggered ==
    shutdowns # <<>> => (signal_received /\ shutdown_event)

(***************************************************************************)
(* C28: once signal_received is true and shutdown_event is set, no step    *)
(* calls create_app and no step begins to serve.                           *)
(***************************************************************************)
C28_NoStartAfterShutdownTriggered ==
    [][(signal_received /\ shutdown_event) =>
          /\ create_app_calls' = create_app_calls
          /\ run_host' = run_host
          /\ Serving' => Serving]_vars

(***************************************************************************)
(* C29: every invocation of signal_handler ends with shutdown_event set,   *)
(* on every platform: when a signal has been delivered and no invocation   *)
(* of the handler remains on the stack, shutdown_event is set.             *)
(***************************************************************************)
C29_HandlerEndsWithEventSet ==
    (/\ delivered # <<>>
     /\ \A k \in 1..Len(stack) : stack[k].kind # "signal") => shutdown_event

(***************************************************************************)
(* C30: in both entry modes sys.excepthook is exception_handler from the   *)
(* moment create_wsgi_application is called, so no failure of it leaves    *)
(* the module without exception_handler having been called.                *)
(***************************************************************************)
C30_HookInstalledBeforeCreate ==
    /\ pc \in {"c_validate", "c_create_app", "c_sample"} => excepthook
    /\ pc # "import_failed"

====
